---- MODULE Spec2Model ----
(***************************************************************************)
(* TRICOT (src/src/tricot.py): a monkey patch of the openai chat           *)
(* completion call-site that logs every exchange on the "TRICOT" logging   *)
(* channel and optionally edits the outgoing messages.                     *)
(*                                                                         *)
(* The model keeps the process-wide state the module touches: the bound    *)
(* call-site, the TRICOT logger (level, handler list), the handler objects *)
(* with their file streams, and the files.  Python objects that can be     *)
(* aliased (message lists, message dicts) live in a small heap so that a   *)
(* copy and an in-place mutation are different things.                     *)
(***************************************************************************)
EXTENDS Integers, Sequences, FiniteSets, TLC

\* ------------------------------------------------------------------ bounds
\* Spec: every hook, input, keyword set and library behaviour, over short
\* runs.  SpecLog: longer runs over the inputs that reach the log.
\* SpecKw: calls whose keywords include the name create_and_log declares.
MaxCalls == 1      \* Spec: calls made through the call-site in one run
MaxOpens == 2      \* Spec: new_log_file calls in one run
MaxLogCalls == 2   \* SpecLog: calls made through the call-site in one run
MaxLogOpens == 2   \* SpecLog: new_log_file calls in one run
MaxKwCalls == 1    \* SpecKw: calls made through the call-site in one run
MaxThreads == 2    \* SpecRace: threads that call new_log_file
MaxFlights == 2    \* SpecFlight: wrapped calls entered in one run
MaxClock == 1      \* the wall clock runs from 0 to MaxClock

\* ------------------------------------------------------------- log levels
NOTSET == 0
INFO == 20
WARNING == 30

\* ---------------------------------------------------------------- messages
Msg(r, c) == [role |-> r, content |-> c]

\* A value json.dumps cannot serialise (bytes, a set, an arbitrary object).
Unserializable == "<bytes>"

SysMsg == Msg("system", "be nice")

\* The message lists the hosting application passes: Scenario A's single
\* user message, and a conversation whose last content is not
\* JSON-serialisable.
InputLists ==
    { <<Msg("user", "hi")>>,
      <<Msg("system", "sys"), Msg("user", Unserializable)>> }

\* The message list of the longer runs.
LogInputLists == { <<Msg("user", "hi")>> }

\* The extra named parameters of the underlying call (model, temperature...).
ApiKwargs == { <<>>, ("model" :> "gpt-4") }

\* ------------------------------------------------------------------- heap
\* lists: list object -> sequence of dict references; dicts: reference ->
\* message.  "caller" is the list object the application passed.
HeapOf(input) ==
    [lists |-> ("caller" :> [i \in 1..Len(input) |-> i]),
     dicts |-> input]

Deref(heap, ref) ==
    [i \in 1..Len(heap.lists[ref]) |-> heap.dicts[heap.lists[ref][i]]]

\* A new list object `name` holding `refs`.
WithList(heap, name, refs) ==
    [heap EXCEPT !.lists = (name :> refs) @@ heap.lists]

\* copy.copy: a new list sharing the caller's dict objects.
shallowcopy(heap, ref) ==
    [heap |-> WithList(heap, "copy", heap.lists[ref]), ref |-> "copy"]

\* copy.deepcopy: a new list object holding new dict objects, equal in value.
deepcopy(heap, ref) ==
    LET src == heap.lists[ref]
        n   == Len(heap.dicts)
        h1  == [heap EXCEPT !.dicts = heap.dicts \o
                                [i \in 1..Len(src) |-> heap.dicts[src[i]]]]
    IN  [heap |-> WithList(h1, "copy", [i \in 1..Len(src) |-> n + i]),
         ref  |-> "copy"]

\* ------------------------------------------------------------------ hooks
\* The editing hooks an application may install.  "None" is no hook.
\*   append_new      return msgs + [sys]          (a new list, Scenario B)
\*   mutate_inplace  msgs[0]["content"] = "X"; msgs.append(sys); return msgs
\*   raises          raise
None == "None"
Hooks == {"append_new", "mutate_inplace", "raises"}
EditCalls == Hooks \cup {None}

\* The hooks of the longer runs.
LogEditCalls == {None, "append_new"}

\* Keyword sets of any names: besides the above, ones that use the name
\* `edit_call`, which create_and_log declares as a parameter of its own
\* (line 61).
KwArgs ==
    ApiKwargs \cup
    { ("edit_call" :> "append_new"),
      ("edit_call" :> None) @@ ("model" :> "gpt-4") }

\* edit_call(messages): the hook `h` run on the list object `ref`.
CallHook(h, heap, ref) ==
    LET l == heap.lists[ref]
        n == Len(heap.dicts)
        withSys == [heap EXCEPT !.dicts = Append(heap.dicts, SysMsg)]
        ok(hp, r) == [raised |-> FALSE, heap |-> hp, ref |-> r]
    IN  CASE h = "append_new" ->
                ok(WithList(withSys, "edited", Append(l, n + 1)), "edited")
          [] h = "mutate_inplace" ->
                ok([withSys EXCEPT !.dicts[l[1]].content = "X",
                                   !.lists[ref] = Append(l, n + 1)], ref)
          [] OTHER ->
                [raised |-> TRUE, heap |-> heap, ref |-> ref]

\* ------------------------------------------------- the underlying library
\* What openai's chat completion call can do with one request: raise, or
\* return a response object.  A response is subscriptable (the pre-1.0
\* OpenAIObject, a dict) or not (an attribute-only object), and carries
\* zero, one or several choices.
NoResponse == [id |-> 0, subscriptable |-> FALSE, choices |-> <<>>]

Responses ==
    { [id |-> 1, subscriptable |-> TRUE,
       choices |-> <<Msg("assistant", "hello")>>],
      [id |-> 2, subscriptable |-> TRUE,
       choices |-> <<Msg("assistant", "a"), Msg("assistant", "b")>>],
      [id |-> 3, subscriptable |-> TRUE, choices |-> <<>>],
      [id |-> 4, subscriptable |-> FALSE,
       choices |-> <<Msg("assistant", "hello")>>] }

\* dt: how long the blocking call takes on the wall clock (a second for
\* the responses of odd id, no time for the others).
ApiBehaviours ==
    { [raises |-> TRUE, response |-> NoResponse, dt |-> 0] } \cup
    { [raises |-> FALSE, response |-> r, dt |-> r.id % 2] : r \in Responses }

\* The library behaviours of the longer runs: it raises, or returns a
\* well-formed response.
LogApiBehaviours ==
    { b \in ApiBehaviours : b.raises \/ b.response.id \in {1, 2} }

\* original_chat_completion_create, bound once at import to the library's
\* own entry point (never to a wrapper).
original_chat_completion_create == "openai.create"

\* Faulty variant of Forward: the keywords are not passed on.
Forward_NoKwargs(target, heap, ref, kwargs, api) ==
    [raised   |-> api.raises,
     response |-> api.response,
     request  |-> [target |-> target, messages |-> Deref(heap, ref),
                   kwargs |-> <<>>]]

\* original_chat_completion_create(messages=messages, **kwargs)
Forward(target, heap, ref, kwargs, api) ==
    [raised   |-> api.raises,
     response |-> api.response,
     request  |-> [target |-> target, messages |-> Deref(heap, ref),
                   kwargs |-> kwargs]]

\* ------------------------------------------------------- create_and_log
\* Faulty variant of HookArgument: list.copy() in place of deepcopy.
HookArgument_Shallow(heap) == shallowcopy(heap, "caller")

\* lines 64-66: with a hook, the hook runs on a deep copy and its result
\* replaces `messages`; without one `messages` stays the caller's list.
HookArgument(heap) == deepcopy(heap, "caller")

\* Faulty variant of EditStep: a hook that raises is ignored and the call
\* goes on with the caller's messages.
EditStep_Swallow(heap, edit_call) ==
    IF edit_call = None
    THEN [raised |-> FALSE, heap |-> heap, ref |-> "caller", hookCalls |-> <<>>]
    ELSE LET arg == HookArgument(heap)
             r   == CallHook(edit_call, arg.heap, arg.ref)
         IN  [raised |-> FALSE,
              heap |-> IF r.raised THEN heap ELSE r.heap,
              ref |-> IF r.raised THEN "caller" ELSE r.ref,
              hookCalls |-> <<[hook |-> edit_call, arg |-> arg.ref]>>]

\* if edit_call is not None: deepcopy, then edit_call(messages), lines 64-66.
EditStep(heap, edit_call) ==
    IF edit_call = None
    THEN [raised |-> FALSE, heap |-> heap, ref |-> "caller", hookCalls |-> <<>>]
    ELSE LET arg == HookArgument(heap)
             r   == CallHook(edit_call, arg.heap, arg.ref)
         IN  [raised |-> r.raised, heap |-> r.heap, ref |-> r.ref,
              hookCalls |-> <<[hook |-> edit_call, arg |-> arg.ref]>>]

\* time.time() at line 69: read before the request is forwarded.
StartTimestamp(clk, api) == clk

\* Faulty variant of ReplyOf: the last choice taken for the reply.
ReplyOf_Last(response) ==
    IF ~response.subscriptable THEN [raised |-> TRUE, error |-> "TypeError"]
    ELSE IF response.choices = <<>> THEN [raised |-> TRUE, error |-> "IndexError"]
    ELSE [raised |-> FALSE, message |-> response.choices[Len(response.choices)]]

\* Faulty variant of ReplyOf: an empty reply stands in for a missing choice.
ReplyOf_Default(response) ==
    IF ~response.subscriptable THEN [raised |-> TRUE, error |-> "TypeError"]
    ELSE IF response.choices = <<>>
        THEN [raised |-> FALSE, message |-> Msg("assistant", "")]
    ELSE [raised |-> FALSE, message |-> response.choices[1]]

\* dict(response["choices"][0]["message"]), line 73.
ReplyOf(response) ==
    IF ~response.subscriptable THEN [raised |-> TRUE, error |-> "TypeError"]
    ELSE IF response.choices = <<>> THEN [raised |-> TRUE, error |-> "IndexError"]
    ELSE [raised |-> FALSE, message |-> response.choices[1]]

\* messages = [*messages, reply], line 73: a new list object.
TraceStep(heap, ref, reply) ==
    LET n  == Len(heap.dicts)
        h1 == [heap EXCEPT !.dicts = Append(heap.dicts, reply)]
    IN  [heap |-> WithList(h1, "trace", Append(heap.lists[ref], n + 1)),
         ref  |-> "trace"]

\* json.dumps({"timestamp": now, "messages": messages}), lines 75-80: one
\* line of text, here its token sequence; TypeError on a value that has no
\* JSON form.
RECURSIVE JsonMessages(_)
JsonMessages(msgs) ==
    IF msgs = <<>> THEN <<>>
    ELSE <<"{", "role:", Head(msgs).role, "content:", Head(msgs).content, "}">>
         \o JsonMessages(Tail(msgs))

\* Faulty variant of JsonDumps: values without a JSON form are written as
\* their text (default=str) and nothing is raised.
JsonDumps_Lenient(record) ==
    [raised |-> FALSE,
     line |-> <<"{", "timestamp:", ToString(record.timestamp),
                "messages:", "[">>
              \o JsonMessages(record.messages) \o <<"]", "}">>]

JsonDumps(record) ==
    IF \E i \in 1..Len(record.messages) :
            record.messages[i].content = Unserializable
    THEN [raised |-> TRUE, line |-> <<>>]
    ELSE [raised |-> FALSE,
          line |-> <<"{", "timestamp:", ToString(record.timestamp),
                     "messages:", "[">>
                   \o JsonMessages(record.messages) \o <<"]", "}">>]

\* Faulty variant of LoggedLines: the request and the reply logged separately.
LoggedLines_Twice(js) == <<js.line, js.line>>

\* logger.info(json.dumps(...)), line 74: the lines handed to the channel.
LoggedLines(js) == <<js.line>>

\* Faulty variant of ReturnValue: the conversation trace returned in place of the
\* response.
ReturnValue_Trace(response, record) == record

\* return response, line 82.
ReturnValue(response, record) == response

\* The wrapped call, lines 58-82, on the caller's list `input`: what was
\* invoked, what was handed to logger.info, and how the call ended.
create_and_log(input, edit_call, kwargs, api, clk) ==
    LET e      == EditStep(HeapOf(input), edit_call)
        now    == StartTimestamp(clk, api)
        f      == Forward(original_chat_completion_create, e.heap, e.ref,
                          kwargs, api)
        rep    == ReplyOf(f.response)
        t      == TraceStep(e.heap, e.ref, rep.message)
        record == [timestamp |-> now, messages |-> Deref(t.heap, t.ref)]
        js     == JsonDumps(record)
        end(how, heap, reqs, resps, recs, lines, ret) ==
            [outcome   |-> how,
             hookCalls |-> e.hookCalls,
             requests  |-> reqs,
             responses |-> resps,
             records   |-> recs,
             logged    |-> lines,
             returned  |-> ret,
             callerRefs  |-> heap.lists["caller"],
             callerAfter |-> Deref(heap, "caller")]
    IN  IF e.raised
            THEN end("hook_raised", e.heap, <<>>, <<>>, <<>>, <<>>, <<>>)
        ELSE IF f.raised
            THEN end("api_raised", e.heap, <<f.request>>, <<>>, <<>>, <<>>, <<>>)
        ELSE IF rep.raised
            THEN end("reply_raised", e.heap, <<f.request>>, <<f.response>>,
                     <<>>, <<>>, <<>>)
        ELSE IF js.raised
            THEN end("dumps_raised", t.heap, <<f.request>>, <<f.response>>,
                     <<>>, <<>>, <<>>)
        ELSE end("returned", t.heap, <<f.request>>, <<f.response>>,
                 <<record>>, LoggedLines(js),
                 <<ReturnValue(f.response, record)>>)

\* The unpatched call-site: the library's own entry point.
direct_call(input, kwargs, api) ==
    LET heap == HeapOf(input)
        f    == Forward(original_chat_completion_create, heap, "caller",
                        kwargs, api)
    IN  [outcome   |-> IF f.raised THEN "api_raised" ELSE "returned",
         hookCalls |-> <<>>,
         requests  |-> <<f.request>>,
         responses |-> IF f.raised THEN <<>> ELSE <<f.response>>,
         records   |-> <<>>,
         logged    |-> <<>>,
         returned  |-> IF f.raised THEN <<>> ELSE <<f.response>>,
         callerRefs  |-> heap.lists["caller"],
         callerAfter |-> Deref(heap, "caller")]

\* partial(create_and_log, edit_call=edit_call), line 94: the object bound to
\* the call-site.
Wrapper(edit_call) == [wrapped |-> TRUE, edit_call |-> edit_call]

Unpatched == [wrapped |-> FALSE, edit_call |-> None]

\* Faulty variant of Patched: an installed wrapper is left in place.
Patched_FirstWins(s, edit_call) == IF s.wrapped THEN s ELSE Wrapper(edit_call)

\* patch_openai, lines 94-99: the new binding of the call-site (the
\* attribute the version shim selected, whichever it is).
Patched(s, edit_call) == Wrapper(edit_call)

\* ---------------------------------------------------------------- logging
P1 == <<"logs", "a.log">>
BadPath == <<"readonly", "x.log">>
HostPath == <<"host", "app.log">>

\* f"logs/{time.strftime('%Y-%m-%d_%H-%M-%S')}.log", line 105.
DefaultPath(clk) == <<"logs", ToString(clk) \o ".log">>

\* new_log_file's path=None.
NoPath == <<>>

\* The paths an application passes to new_log_file.
PathArgs == {NoPath, P1, BadPath}

\* The files that can exist.
AllPaths == {P1, HostPath} \cup {DefaultPath(t) : t \in 0..MaxClock}

\* open(path, "a") fails in a directory that cannot be written.
Unwritable(path) == path[1] = "readonly"

\* Logger.getEffectiveLevel: the logger's own level, else its parent's.
EffectiveLevel(level, rootLvl) == IF level # NOTSET THEN level ELSE rootLvl

IsEnabledFor(lvl, level, rootLvl) == lvl >= EffectiveLevel(level, rootLvl)

\* Logger.hasHandlers: this logger or, since it propagates, an ancestor.
HasHandlers(hs, rootHs) == hs # <<>> \/ rootHs

\* Logger.removeHandler(hdlr): drops it from the list; nothing is closed.
RemoveHandler(hs, h) == SelectSeq(hs, LAMBDA x : x # h)

\* while logger.hasHandlers(): logger.removeHandler(logger.handlers[0]),
\* lines 109-110.  handlers[0] of an empty list raises IndexError.
RECURSIVE RemoveLoop(_, _)
RemoveLoop(hs, rootHs) ==
    IF ~HasHandlers(hs, rootHs) THEN [raised |-> FALSE, handlers |-> hs]
    ELSE IF hs = <<>> THEN [raised |-> TRUE, handlers |-> hs]
    ELSE RemoveLoop(RemoveHandler(hs, hs[1]), rootHs)

\* logging.FileHandler(path), line 111: opens path for appending at once,
\* and raises when it cannot.
FileHandler(path) ==
    IF Unwritable(path) THEN [raised |-> TRUE]
    ELSE [raised |-> FALSE,
          handler |-> [path |-> path, stream |-> "open", owner |-> "tricot"]]

\* A handler the hosting application attached to the TRICOT logger itself.
HostHandler == [path |-> HostPath, stream |-> "open", owner |-> "host"]

\* The handler object behind an id: the handlers new_log_file created are
\* numbered from 1, the application's own from -1 down.
HandlerOf(objs, id) == IF id < 0 THEN HostHandler ELSE objs[id]

\* Faulty variant of CallHandlers: each write replaces the file's content.
RECURSIVE CallHandlers_Overwrite(_, _, _, _)
CallHandlers_Overwrite(fs, hs, objs, line) ==
    IF hs = <<>> THEN fs
    ELSE CallHandlers_Overwrite(
             [fs EXCEPT ![HandlerOf(objs, Head(hs)).path] = <<line>>],
             Tail(hs), objs, line)

\* Logger.callHandlers: every attached handler writes the line to its file.
RECURSIVE CallHandlers(_, _, _, _)
CallHandlers(fs, hs, objs, line) ==
    IF hs = <<>> THEN fs
    ELSE LET h == HandlerOf(objs, Head(hs))
             f1 == IF h.stream = "open"
                   THEN [fs EXCEPT ![h.path] = Append(@, line)]
                   ELSE fs
         IN  CallHandlers(f1, Tail(hs), objs, line)

\* logger.info(line), line 74: dropped unless INFO is enabled on the channel.
LoggerInfo(fs, hs, objs, level, rootLvl, line) ==
    IF IsEnabledFor(INFO, level, rootLvl)
    THEN CallHandlers(fs, hs, objs, line)
    ELSE fs

\* ------------------------------------------------------------------ state
VARIABLES
    site,          \* what the patched attribute of openai is bound to
    level,         \* level of the TRICOT logger
    handlers,      \* logger.handlers of the TRICOT logger: handler ids
    handlerObjs,   \* the handler objects new_log_file created, by id
    files,         \* path -> the lines of the file
    rootHandlers,  \* whether the root logger has a handler attached
    clock,         \* wall clock, in seconds
    last,          \* the operation that ran last and how it ended
    lastInstall,   \* history: argument of the latest patch_openai
    superseded,    \* history: an install replaced a wrapper with another hook
    opened,        \* history: the latest new_log_file and the files it found
    sinceOpen,     \* history: the wrapped calls since then, in call order
    nCalls,
    nOpens,
    threads,       \* thread -> where it is inside new_log_file, statement-wise
    flight         \* the frame of the create_and_log call in progress

\* The variables the statement-level specifications add.
frames == <<threads, flight>>

vars == <<site, level, handlers, handlerObjs, files, rootHandlers, clock,
          last, lastInstall, superseded, opened, sinceOpen, nCalls, nOpens,
          threads, flight>>

\* The threads of the hosting application that call new_log_file.
Threads == 1..MaxThreads

Init ==
    /\ site = Unpatched
    /\ level = NOTSET
    /\ \E n \in {0, 2} : handlers = [i \in 1..n |-> 0 - i]
    /\ handlerObjs = <<>>
    /\ files = [p \in AllPaths |-> <<>>]
    /\ rootHandlers \in BOOLEAN
    /\ clock = 0
    /\ last = [op |-> "import"]
    /\ lastInstall = "never"
    /\ superseded = FALSE
    /\ opened = [ok |-> FALSE, path |-> NoPath, prev |-> NoPath,
                 snapshot |-> files]
    /\ sinceOpen = <<>>
    /\ nCalls = 0
    /\ nOpens = 0
    /\ threads = [t \in Threads |-> [pc |-> "idle"]]
    /\ flight = [pc |-> "idle"]

\* Faulty variant of patch_openai: the install also enables INFO on the
\* TRICOT logger.
patch_openai_SetsLevel(edit_call) ==
    /\ site' = Patched(site, edit_call)
    /\ level' = INFO
    /\ lastInstall' = edit_call
    /\ superseded' = (superseded \/ lastInstall \notin {"never", edit_call})
    /\ last' = [op |-> "patch", edit_call |-> edit_call]
    /\ UNCHANGED <<handlers, handlerObjs, files, rootHandlers, clock,
                   opened, sinceOpen, nCalls, nOpens, frames>>

\* patch_openai(edit_call), lines 85-99.
patch_openai(edit_call) ==
    /\ site' = Patched(site, edit_call)
    /\ lastInstall' = edit_call
    /\ superseded' = (superseded \/ lastInstall \notin {"never", edit_call})
    /\ last' = [op |-> "patch", edit_call |-> edit_call]
    /\ UNCHANGED <<level, handlers, handlerObjs, files, rootHandlers, clock,
                   opened, sinceOpen, nCalls, nOpens, frames>>

\* Faulty variant of NewLogFile: the new handler is added beside the old ones.
NewLogFile_KeepOld(hs, objs, rootHs, path) ==
    LET fh == FileHandler(path)
    IN  IF fh.raised
        THEN [outcome |-> "OSError", handlers |-> hs, handlerObjs |-> objs]
        ELSE [outcome |-> "returned",
              handlers |-> Append(hs, Len(objs) + 1),
              handlerObjs |-> Append(objs, fh.handler)]

\* Faulty variant of NewLogFile: the file is opened before the old handlers are
\* removed, so a failure to open leaves them attached.
NewLogFile_OpenFirst(hs, objs, rootHs, path) ==
    LET fh   == FileHandler(path)
        loop == RemoveLoop(hs, rootHs)
    IN  IF fh.raised
            THEN [outcome |-> "OSError", handlers |-> hs, handlerObjs |-> objs]
        ELSE IF loop.raised
            THEN [outcome |-> "IndexError", handlers |-> loop.handlers,
                  handlerObjs |-> objs]
        ELSE [outcome |-> "returned",
              handlers |-> Append(loop.handlers, Len(objs) + 1),
              handlerObjs |-> Append(objs, fh.handler)]

\* Lines 107-111 on the logger's handler list `hs` and the handler objects
\* `objs`: remove every handler, open the file, attach the new handler.
NewLogFile(hs, objs, rootHs, path) ==
    LET loop == RemoveLoop(hs, rootHs)
        fh   == FileHandler(path)
    IN  IF loop.raised
            THEN [outcome |-> "IndexError", handlers |-> loop.handlers,
                  handlerObjs |-> objs]
        ELSE IF fh.raised
            THEN [outcome |-> "OSError", handlers |-> loop.handlers,
                  handlerObjs |-> objs]
        ELSE [outcome |-> "returned",
              handlers |-> Append(loop.handlers, Len(objs) + 1),
              handlerObjs |-> Append(objs, fh.handler)]

\* Faulty variant of SetLevel: the level is left as it was.
SetLevel_Keep(lvl) == lvl

\* logger.setLevel(logging.INFO), line 108.
SetLevel(lvl) == INFO

\* new_log_file(path), lines 102-111.
new_log_file(arg, maxOpens) ==
    LET path == IF arg = NoPath THEN DefaultPath(clock) ELSE arg
        r    == NewLogFile(handlers, handlerObjs, rootHandlers, path)
    IN  /\ nOpens < maxOpens
        /\ nOpens' = nOpens + 1
        /\ level' = SetLevel(level)
        /\ handlers' = r.handlers
        /\ handlerObjs' = r.handlerObjs
        /\ opened' = [ok |-> r.outcome = "returned", path |-> path,
                      prev |-> IF opened.ok THEN opened.path ELSE opened.prev,
                      snapshot |-> files]
        /\ sinceOpen' = <<>>
        /\ last' = [op |-> "open", arg |-> arg, path |-> path,
                    outcome |-> r.outcome, before |-> handlers,
                    objsBefore |-> Len(handlerObjs)]
        /\ UNCHANGED <<site, files, rootHandlers, clock, lastInstall,
                       superseded, nCalls, frames>>

\* The call-site as the application invokes it: partial() merges the bound
\* edit_call with the caller's keywords, the caller's winning.
BoundCall(s, input, kwargs, api, clk) ==
    IF s.wrapped
    THEN LET edit == IF "edit_call" \in DOMAIN kwargs
                     THEN kwargs["edit_call"] ELSE s.edit_call
             rest == [n \in DOMAIN kwargs \ {"edit_call"} |-> kwargs[n]]
         IN  create_and_log(input, edit, rest, api, clk)
    ELSE direct_call(input, kwargs, api)

RECURSIVE LogAll(_, _, _, _, _, _)
LogAll(fs, hs, objs, lvl, rootLvl, lines) ==
    IF lines = <<>> THEN fs
    ELSE LogAll(LoggerInfo(fs, hs, objs, lvl, rootLvl, Head(lines)),
                hs, objs, lvl, rootLvl, Tail(lines))

\* One call of the application through the call-site: a message list of
\* `inputs`, keywords of `KW`, and the library behaving as one of `apis`.
Call(inputs, KW, apis, maxCalls) ==
    \E input \in inputs, kwargs \in KW, api \in apis :
        LET r    == BoundCall(site, input, kwargs, api, clock)
            took == IF r.requests = <<>> THEN 0 ELSE api.dt
        IN  /\ nCalls < maxCalls
            /\ clock + took <= MaxClock
            /\ nCalls' = nCalls + 1
            /\ clock' = clock + took
            /\ files' = LogAll(files, handlers, handlerObjs, level, WARNING,
                               r.logged)
            /\ sinceOpen' = IF site.wrapped
                            THEN Append(sinceOpen,
                                        [ok |-> r.outcome = "returned",
                                         lines |-> r.logged])
                            ELSE sinceOpen
            /\ last' = [op |-> "call", wrapped |-> site.wrapped,
                        input |-> input, kwargs |-> kwargs, api |-> api,
                        start |-> clock, res |-> r,
                        enabled |-> IsEnabledFor(INFO, level, WARNING)]
            /\ UNCHANGED <<site, level, handlers, handlerObjs, rootHandlers,
                           lastInstall, superseded, opened, nOpens, frames>>

\* The interpreter finalises a handler object nothing refers to any more and
\* its stream is closed; when, if ever, is up to the garbage collector.
Collect ==
    \E h \in 1..Len(handlerObjs) :
        /\ \A i \in 1..Len(handlers) : handlers[i] # h
        /\ handlerObjs[h].stream = "open"
        /\ handlerObjs' = [handlerObjs EXCEPT ![h].stream = "closed"]
        /\ UNCHANGED <<site, level, handlers, files, rootHandlers, clock,
                       last, lastInstall, superseded, opened, sinceOpen,
                       nCalls, nOpens, frames>>

Next ==
    \/ \E e \in EditCalls : patch_openai(e)
    \/ \E p \in PathArgs : new_log_file(p, MaxOpens)
    \/ Call(InputLists, ApiKwargs, ApiBehaviours, MaxCalls)
    \/ Collect

Spec == Init /\ [][Next]_vars

NextLog ==
    \/ \E e \in LogEditCalls : patch_openai(e)
    \/ \E p \in PathArgs : new_log_file(p, MaxLogOpens)
    \/ Call(LogInputLists, {<<>>}, LogApiBehaviours, MaxLogCalls)
    \/ Collect

SpecLog == Init /\ [][NextLog]_vars

\* Installs and calls only, the calls with keywords of any names.
NextKw ==
    \/ \E e \in EditCalls : patch_openai(e)
    \/ Call(InputLists, KwArgs, ApiBehaviours, MaxKwCalls)

SpecKw == Init /\ [][NextKw]_vars

\* ------------------------------------------ new_log_file, statement-wise
\* Threads of the application inside new_log_file at the same time, each
\* running one statement per step: nothing in lines 102-111 takes a lock
\* across statements.  A thread's pc is the line it executes next, or how
\* its call ended.
raceFrame == <<site, files, rootHandlers, clock, last, lastInstall,
               superseded, opened, sinceOpen, nCalls, nOpens, flight>>

\* Lines 104-107: the default path, getLogger.
race_begin(t, arg) ==
    /\ threads[t].pc = "idle"
    /\ threads' = [threads EXCEPT ![t] =
            [pc |-> "L108",
             path |-> IF arg = NoPath THEN DefaultPath(clock) ELSE arg]]
    /\ UNCHANGED <<level, handlers, handlerObjs>>
    /\ UNCHANGED raceFrame

\* Line 108.
race_setLevel(t) ==
    /\ threads[t].pc = "L108"
    /\ level' = SetLevel(level)
    /\ threads' = [threads EXCEPT ![t].pc = "L109"]
    /\ UNCHANGED <<handlers, handlerObjs>>
    /\ UNCHANGED raceFrame

\* Line 109: the loop test.
race_hasHandlers(t) ==
    /\ threads[t].pc = "L109"
    /\ threads' = [threads EXCEPT ![t].pc =
            IF HasHandlers(handlers, rootHandlers) THEN "L110" ELSE "L111"]
    /\ UNCHANGED <<level, handlers, handlerObjs>>
    /\ UNCHANGED raceFrame

\* Faulty variant of race_removeHandler: `if` in place of `while`, one
\* handler removed at most.
race_removeHandler_Once(t) ==
    /\ threads[t].pc = "L110"
    /\ IF handlers = <<>>
       THEN /\ threads' = [threads EXCEPT ![t].pc = "IndexError"]
            /\ UNCHANGED handlers
       ELSE /\ handlers' = RemoveHandler(handlers, handlers[1])
            /\ threads' = [threads EXCEPT ![t].pc = "L111"]
    /\ UNCHANGED <<level, handlerObjs>>
    /\ UNCHANGED raceFrame

\* Line 110: logger.removeHandler(logger.handlers[0]), then back to the
\* test; IndexError when the list is empty by now.
race_removeHandler(t) ==
    /\ threads[t].pc = "L110"
    /\ IF handlers = <<>>
       THEN /\ threads' = [threads EXCEPT ![t].pc = "IndexError"]
            /\ UNCHANGED handlers
       ELSE /\ handlers' = RemoveHandler(handlers, handlers[1])
            /\ threads' = [threads EXCEPT ![t].pc = "L109"]
    /\ UNCHANGED <<level, handlerObjs>>
    /\ UNCHANGED raceFrame

\* Line 111: logger.addHandler(logging.FileHandler(path)).
race_addHandler(t) ==
    LET fh == FileHandler(threads[t].path)
    IN  /\ threads[t].pc = "L111"
        /\ IF fh.raised
           THEN /\ threads' = [threads EXCEPT ![t].pc = "OSError"]
                /\ UNCHANGED <<handlers, handlerObjs>>
           ELSE /\ handlerObjs' = Append(handlerObjs, fh.handler)
                /\ handlers' = Append(handlers, Len(handlerObjs) + 1)
                /\ threads' = [threads EXCEPT ![t].pc = "returned"]
        /\ UNCHANGED level
        /\ UNCHANGED raceFrame

NextRace ==
    \E t \in Threads :
        \/ \E p \in PathArgs : race_begin(t, p)
        \/ race_setLevel(t)
        \/ race_hasHandlers(t)
        \/ race_removeHandler(t)
        \/ race_addHandler(t)

SpecRace == Init /\ [][NextRace]_vars

\* ---------------------------------------------- create_and_log, step-wise
\* One wrapped call at a time, a statement per step, while another thread
\* of the application may install a wrapper and the wall clock may advance
\* between any two steps.  flight.pc is the line executed next, "inflight"
\* while the underlying request is out, or how the call ended.
flightFrame == <<level, handlers, handlerObjs, rootHandlers, last,
                 lastInstall, superseded, opened, sinceOpen, nOpens, threads>>

\* The step `name` taken at the current clock, added to the frame's history.
Stepped(fl, name, clk) ==
    [fl EXCEPT !.steps = Append(@, [step |-> name, at |-> clk])]

\* The application evaluates the call-site and calls the partial object it
\* finds there: the hook is the one bound in that object (line 94).
flight_enter(input) ==
    /\ flight.pc \in {"idle", "returned", "raised"}
    /\ site.wrapped
    /\ nCalls < MaxFlights
    /\ nCalls' = nCalls + 1
    /\ flight' = [pc |-> "L64", input |-> input,
                  edit_call |-> site.edit_call, installed |-> lastInstall,
                  heap |-> HeapOf(input), ref |-> "caller",
                  hookCalls |-> <<>>, now |-> 0 - 1,
                  requests |-> <<>>, pending |-> <<>>, responses |-> <<>>,
                  sentSite |-> site, recvSite |-> site,
                  records |-> <<>>, logged |-> <<>>, returned |-> <<>>,
                  steps |-> <<>>]
    /\ UNCHANGED <<site, files, clock>>
    /\ UNCHANGED flightFrame

\* Faulty variant of BoundHook: the hook is looked up at the call-site when
\* it is applied.
BoundHook_Global(bound, s) == s.edit_call

\* The hook create_and_log applies is its parameter edit_call (line 64), bound
\* when the call was entered, whatever the call-site `s` holds by now.
BoundHook(bound, s) == bound

\* Lines 64-66.
flight_edit ==
    LET hook == BoundHook(flight.edit_call, site)
        e    == EditStep(flight.heap, hook)
        fl   == [flight EXCEPT !.heap = e.heap, !.ref = e.ref,
                               !.hookCalls = e.hookCalls,
                               !.pc = IF e.raised THEN "raised" ELSE "L69"]
    IN  /\ flight.pc = "L64"
        /\ flight' = IF hook = None THEN fl ELSE Stepped(fl, "hook", clock)
        /\ UNCHANGED <<site, files, clock, nCalls>>
        /\ UNCHANGED flightFrame

\* Line 69.
flight_time ==
    /\ flight.pc = "L69"
    /\ flight' = Stepped([flight EXCEPT !.now = clock, !.pc = "L71"],
                         "time", clock)
    /\ UNCHANGED <<site, files, clock, nCalls>>
    /\ UNCHANGED flightFrame

\* Line 71, the request goes out; how the library will answer it is `api`.
flight_send(api) ==
    LET f == Forward(original_chat_completion_create, flight.heap,
                     flight.ref, <<>>, api)
    IN  /\ flight.pc = "L71"
        /\ flight' = Stepped([flight EXCEPT !.requests = <<f.request>>,
                                            !.pending = <<f>>,
                                            !.sentSite = site,
                                            !.pc = "inflight"],
                             "send", clock)
        /\ UNCHANGED <<site, files, clock, nCalls>>
        /\ UNCHANGED flightFrame

\* Line 71, the blocking call comes back: a response, or its exception.
flight_receive ==
    LET f == flight.pending[1]
    IN  /\ flight.pc = "inflight"
        /\ flight' = Stepped([flight EXCEPT
                                 !.responses = IF f.raised THEN <<>>
                                               ELSE <<f.response>>,
                                 !.recvSite = site,
                                 !.pc = IF f.raised THEN "raised" ELSE "L73"],
                             "receive", clock)
        /\ UNCHANGED <<site, files, clock, nCalls>>
        /\ UNCHANGED flightFrame

\* Faulty variant of RecordTimestamp: time.time() evaluated inside the
\* record, when it is built.
RecordTimestamp_AtLog(now, clk) == clk

\* "timestamp": now, line 78: the local read at line 69, not the clock as
\* it stands when the record is built.
RecordTimestamp(now, clk) == now

\* Lines 73-81.
flight_log ==
    LET rep    == ReplyOf(flight.responses[1])
        t      == TraceStep(flight.heap, flight.ref, rep.message)
        record == [timestamp |-> RecordTimestamp(flight.now, clock),
                   messages |-> Deref(t.heap, t.ref)]
        js     == JsonDumps(record)
    IN  /\ flight.pc = "L73"
        /\ IF rep.raised \/ js.raised
           THEN /\ flight' = [flight EXCEPT !.pc = "raised"]
                /\ UNCHANGED files
           ELSE /\ flight' = Stepped([flight EXCEPT
                                        !.records = <<record>>,
                                        !.logged = LoggedLines(js),
                                        !.pc = "L82"],
                                     "log", clock)
                /\ files' = LogAll(files, handlers, handlerObjs, level,
                                   WARNING, LoggedLines(js))
        /\ UNCHANGED <<site, clock, nCalls>>
        /\ UNCHANGED flightFrame

\* Line 82.
flight_return ==
    /\ flight.pc = "L82"
    /\ flight' = Stepped([flight EXCEPT
                            !.returned = <<ReturnValue(flight.responses[1],
                                                       flight.records[1])>>,
                            !.pc = "returned"],
                         "return", clock)
    /\ UNCHANGED <<site, files, clock, nCalls>>
    /\ UNCHANGED flightFrame

\* A second passes on the wall clock.
Tick ==
    /\ clock < MaxClock
    /\ clock' = clock + 1
    /\ UNCHANGED <<site, files, nCalls, flight>>
    /\ UNCHANGED flightFrame

NextFlight ==
    \/ \E e \in EditCalls : patch_openai(e)
    \/ \E input \in LogInputLists : flight_enter(input)
    \/ flight_edit
    \/ flight_time
    \/ \E api \in ApiBehaviours : flight_send(api)
    \/ flight_receive
    \/ flight_log
    \/ flight_return
    \/ Tick

SpecFlight == Init /\ [][NextFlight]_vars

\* ======================================================================
\* Properties
\* ======================================================================

\* The last step was a call through the installed wrapper.
WrappedCall == last.op = "call" /\ last.wrapped

\* What a hook is documented to return for a list of messages, by value.
HookResult(h, msgs) ==
    CASE h = "append_new"     -> Append(msgs, SysMsg)
      [] h = "mutate_inplace" -> Append([msgs EXCEPT ![1].content = "X"], SysMsg)
      [] OTHER                -> msgs

\* ------------------------------------------------------------------- C1
\* C1: after any sequence of patch_openai and new_log_file calls, a wrapped
\* call that returns hands exactly one record to the TRICOT channel
\* (logger.info is called once), and a wrapped call that fails (the hook or
\* the underlying call raised, or the call raised later) hands it none.
\* Once new_log_file has run the channel's level is INFO and the channel
\* passes on every record handed to it.
C1_ExactlyOneRecord ==
    WrappedCall =>
        /\ last.res.outcome = "returned" => Len(last.res.logged) = 1
        /\ last.res.outcome # "returned" => last.res.logged = <<>>
        /\ nOpens > 0 => last.enabled

\* A wrapped call returned after two installs and a new_log_file.
C1_Witness ==
    /\ WrappedCall
    /\ last.res.outcome = "returned"
    /\ superseded
    /\ nOpens > 0
    /\ Len(last.res.logged) = 1

\* ------------------------------------------------------------------- C2
\* C2: for every input list, extra named parameters and installed hook (or
\* none), the value a returning wrapped call gives its caller is the very
\* response the underlying call returned for the edited messages (the
\* original messages without a hook).
C2_Transparent ==
    (WrappedCall /\ last.res.outcome = "returned") =>
        /\ last.res.returned = <<last.api.response>>
        /\ last.res.responses = <<last.api.response>>
        /\ Len(last.res.requests) = 1
        /\ last.res.requests[1].messages
              = HookResult(site.edit_call, last.input)

\* A hook that edits the request, extra parameters, and a response returned.
C2_Witness ==
    /\ WrappedCall
    /\ last.res.outcome = "returned"
    /\ site.edit_call = "mutate_inplace"
    /\ last.kwargs # <<>>
    /\ last.res.returned[1].id = 2

\* ------------------------------------------------------------------- C3
\* C3: after every wrapped call, returned or raised, with or without a
\* hook, the caller's list object holds the same elements (the same dict
\* objects, with the same contents) as before the call.
C3_CallerUnchanged ==
    WrappedCall =>
        /\ last.res.callerAfter = last.input
        /\ last.res.callerRefs = [i \in 1..Len(last.input) |-> i]

\* A hook that mutates its argument in place ran, and the call returned.
C3_Witness ==
    /\ WrappedCall
    /\ last.res.outcome = "returned"
    /\ Len(last.res.hookCalls) = 1
    /\ last.res.hookCalls[1].hook = "mutate_inplace"
    /\ last.res.requests[1].messages # last.input

\* ------------------------------------------------------------------- C4
\* C4: the messages of the record a returning wrapped call emits are the
\* messages forwarded to the underlying call, in order, followed by exactly
\* one message: the role and content of the response's first choice.
C4_TraceComposition ==
    (WrappedCall /\ last.res.outcome = "returned") =>
        /\ Len(last.res.records) = 1
        /\ last.res.records[1].messages
              = Append(last.res.requests[1].messages,
                       last.api.response.choices[1])
        /\ last.res.requests[1].messages
              = HookResult(site.edit_call, last.input)
        /\ last.res.logged = <<JsonDumps(last.res.records[1]).line>>

\* A response with two choices after a hook that appended a message.
C4_Witness ==
    /\ WrappedCall
    /\ last.res.outcome = "returned"
    /\ Len(last.api.response.choices) = 2
    /\ site.edit_call = "append_new"
    /\ Len(last.res.records[1].messages) = 3


\* ------------------------------------------------------------------- C5
\* C5 as stated: after one or more installs a call applies only the hook
\* of the last install, at most once, and invokes the original underlying
\* call exactly once.
C5_ExactlyOneForward ==
    (last.op = "call" /\ lastInstall # "never") =>
        /\ last.wrapped
        /\ last.res.hookCalls
              = IF lastInstall = None THEN <<>>
                ELSE <<[hook |-> lastInstall, arg |-> "copy"]>>
        /\ Len(last.res.requests) = 1

\* C5, amended: after one or more installs a call applies only the hook of
\* the last install, at most once; it invokes the original underlying call
\* (never a wrapper) exactly once with that hook's result when the hook
\* returns, and not at all when the hook raises; nothing is logged twice.
C5_LastInstallWins ==
    (last.op = "call" /\ lastInstall # "never") =>
        /\ last.wrapped
        /\ last.res.hookCalls
              = IF lastInstall = None THEN <<>>
                ELSE <<[hook |-> lastInstall, arg |-> "copy"]>>
        /\ Len(last.res.requests)
              = IF last.res.outcome = "hook_raised" THEN 0 ELSE 1
        /\ \A i \in 1..Len(last.res.requests) :
              /\ last.res.requests[i].target = original_chat_completion_create
              /\ last.res.requests[i].messages
                    = HookResult(lastInstall, last.input)
        /\ Len(last.res.logged) <= 1

\* A call after an install that replaced a wrapper bound to another hook.
C5_Witness ==
    /\ last.op = "call"
    /\ superseded
    /\ lastInstall = "append_new"
    /\ last.res.outcome = "returned"

\* ------------------------------------------------------------------- C6
\* The lines the wrapped calls since the latest new_log_file handed over.
RECURSIVE LinesOf(_)
LinesOf(entries) ==
    IF entries = <<>> THEN <<>>
    ELSE Head(entries).lines \o LinesOf(Tail(entries))

\* C6: once new_log_file has run, no file other than the one it opened
\* gains or loses a line: the records of later wrapped calls go to the most
\* recently opened destination only (and to none if that open failed).
C6_OnlyLatestDestination ==
    nOpens > 0 =>
        /\ \A p \in DOMAIN files :
              (p # opened.path \/ ~opened.ok) => files[p] = opened.snapshot[p]
        /\ opened.ok =>
              Len(files[opened.path])
                  = Len(opened.snapshot[opened.path]) + Len(LinesOf(sinceOpen))

\* p1 was opened and received a record, then a different p2 was opened and
\* received one.
C6_Witness ==
    /\ opened.ok
    /\ opened.prev \notin {NoPath, opened.path}
    /\ opened.snapshot[opened.prev] # <<>>
    /\ files[opened.path] # <<>>

\* ------------------------------------------------------------------- C7
\* C7: after a new_log_file that returns, whatever was attached before
\* (nothing, one handler, several), the TRICOT logger has exactly one
\* handler, the newly created one on the opened file, and INFO is enabled.
C7_SingleDestination ==
    (last.op = "open" /\ last.outcome = "returned") =>
        /\ Len(handlers) = 1
        /\ handlers[1] > last.objsBefore
        /\ handlerObjs[handlers[1]]
              = [path |-> last.path, stream |-> "open", owner |-> "tricot"]
        /\ IsEnabledFor(INFO, level, WARNING)

\* A new_log_file that returned with several handlers attached before it.
C7_Witness ==
    /\ last.op = "open"
    /\ last.outcome = "returned"
    /\ Len(last.before) = 2

\* ------------------------------------------------------------------- C8
\* C8: after any sequence of new_log_file calls at most one log file handle
\* opened by new_log_file is still open.
C8_AtMostOneOpenHandle ==
    Cardinality({h \in 1..Len(handlerObjs) :
                    /\ handlerObjs[h].owner = "tricot"
                    /\ handlerObjs[h].stream = "open"}) <= 1

\* ------------------------------------------------------------------- C9
\* C9: when opening the file fails inside new_log_file the call raises, no
\* handler is created or attached, and the handlers attached before have
\* been removed: the logger is left with none.
C9_FailedOpenLeavesNone ==
    (last.op = "open" /\ last.outcome = "OSError") =>
        /\ handlers = <<>>
        /\ Len(handlerObjs) = last.objsBefore

\* The open failed while a handler of an earlier new_log_file was attached.
C9_Witness ==
    /\ last.op = "open"
    /\ last.outcome = "OSError"
    /\ last.before # <<>>
    /\ HandlerOf(handlerObjs, last.before[1]).owner = "tricot"

\* ------------------------------------------------------------------ C10
IsPrefix(a, b) == Len(a) <= Len(b) /\ SubSeq(b, 1, Len(a)) = a

\* C10: after new_log_file(p) returned, the file p holds what it held then
\* (nothing, for an empty file) followed by exactly one line per returned
\* wrapped call and none per failed one, in call order; and no step ever
\* changes or removes a line already in a file.
C10_AppendOnlyLog ==
    /\ [](opened.ok =>
            /\ files[opened.path]
                  = opened.snapshot[opened.path] \o LinesOf(sinceOpen)
            /\ \A i \in 1..Len(sinceOpen) :
                  Len(sinceOpen[i].lines) = IF sinceOpen[i].ok THEN 1 ELSE 0)
    /\ [][\A p \in DOMAIN files : IsPrefix(files[p], files'[p])]_vars

\* Two returned wrapped calls wrote two different lines to an empty file.
C10_Witness ==
    /\ opened.ok
    /\ opened.snapshot[opened.path] = <<>>
    /\ Len(sinceOpen) = 2
    /\ sinceOpen[1].ok /\ sinceOpen[2].ok
    /\ sinceOpen[1].lines # sinceOpen[2].lines
    /\ files[opened.path] = sinceOpen[1].lines \o sinceOpen[2].lines

\* ------------------------------------------------------------------ C11
\* C11 as stated: every named parameter the caller passes besides
\* messages, whatever its name, reaches the original underlying call with the same name and
\* value, and nothing else does: the keywords of the forwarded request are
\* exactly the caller's, and the hook that runs is the installed one.
C11_AllKeywordsForwarded ==
    WrappedCall =>
        /\ \A i \in 1..Len(last.res.requests) :
              last.res.requests[i].kwargs = last.kwargs
        /\ \A i \in 1..Len(last.res.hookCalls) :
              last.res.hookCalls[i].hook = site.edit_call

\* The caller's keywords under the names create_and_log does not declare.
OtherKeywords(kwargs) ==
    [n \in DOMAIN kwargs \ {"edit_call"} |-> kwargs[n]]

\* C11, amended: every named parameter the caller passes under a name other
\* than edit_call reaches the original underlying call with the same name
\* and value, and the keywords forwarded besides messages are exactly
\* those; a parameter named edit_call is consumed: it is the hook of that
\* call in place of the installed one and is not forwarded.
C11_KeywordsButEditCall ==
    WrappedCall =>
        LET hook == IF "edit_call" \in DOMAIN last.kwargs
                    THEN last.kwargs["edit_call"] ELSE site.edit_call
        IN  /\ Len(last.res.requests)
                  = IF last.res.outcome = "hook_raised" THEN 0 ELSE 1
            /\ \A i \in 1..Len(last.res.requests) :
                  last.res.requests[i].kwargs = OtherKeywords(last.kwargs)
            /\ Len(last.res.hookCalls) = IF hook = None THEN 0 ELSE 1
            /\ \A i \in 1..Len(last.res.hookCalls) :
                  last.res.hookCalls[i].hook = hook

\* A call passed a model and an edit_call; only the model was forwarded.
C11_Witness ==
    /\ WrappedCall
    /\ DOMAIN last.kwargs = {"edit_call", "model"}
    /\ site.edit_call = "append_new"
    /\ Len(last.res.requests) = 1
    /\ DOMAIN last.res.requests[1].kwargs = {"model"}
    /\ last.res.hookCalls = <<>>

\* ------------------------------------------------------------------ C12
\* Some message of `msgs` has content with no JSON form.
HasUnserializable(msgs) ==
    \E i \in 1..Len(msgs) : msgs[i].content = Unserializable

\* C12: when the underlying call returned a response with a reply and a
\* message of the trace (a forwarded message or the reply) cannot be
\* serialised, the wrapped call raises out of json.dumps: the caller gets
\* no response and nothing is handed to the channel.
C12_DumpFailurePropagates ==
    (/\ WrappedCall
     /\ last.res.responses # <<>>
     /\ last.api.response.subscriptable
     /\ last.api.response.choices # <<>>
     /\ HasUnserializable(Append(last.res.requests[1].messages,
                                 last.api.response.choices[1])))
    => /\ last.res.outcome = "dumps_raised"
       /\ last.res.returned = <<>>
       /\ last.res.records = <<>>
       /\ last.res.logged = <<>>
       /\ last.res.responses = <<last.api.response>>

\* The library answered a request whose second message was not
\* serialisable, after a hook had edited the first.
C12_Witness ==
    /\ WrappedCall
    /\ last.res.outcome = "dumps_raised"
    /\ last.res.responses # <<>>
    /\ site.edit_call = "mutate_inplace"
    /\ last.res.requests[1].messages[2].content = Unserializable

\* ------------------------------------------------------------------ C14
\* C14: when the hook of a wrapped call raises, the call raises the hook's
\* failure; the original underlying call is not invoked, nothing is
\* handed to the channel and nothing is returned.
C14_HookFailureStopsCall ==
    (WrappedCall /\ site.edit_call = "raises") =>
        /\ last.res.outcome = "hook_raised"
        /\ last.res.hookCalls = <<[hook |-> "raises", arg |-> "copy"]>>
        /\ last.res.requests = <<>>
        /\ last.res.responses = <<>>
        /\ last.res.logged = <<>>
        /\ last.res.returned = <<>>

\* A raising hook met a library that would have answered.
C14_Witness ==
    /\ WrappedCall
    /\ site.edit_call = "raises"
    /\ ~last.api.raises
    /\ last.api.response.id = 1
    /\ last.res.outcome = "hook_raised"

\* ------------------------------------------------------------------ C15
\* C15: when the underlying call returns a response with zero choices the
\* wrapped call raises: the response is not returned, no record is built
\* and nothing is handed to the channel.
C15_ZeroChoicesFails ==
    (/\ WrappedCall
     /\ last.res.responses # <<>>
     /\ last.res.responses[1].choices = <<>>)
    => /\ last.res.outcome = "reply_raised"
       /\ last.res.returned = <<>>
       /\ last.res.records = <<>>
       /\ last.res.logged = <<>>

\* The library returned a subscriptable response with no choice.
C15_Witness ==
    /\ WrappedCall
    /\ last.res.responses # <<>>
    /\ last.res.responses[1].subscriptable
    /\ last.res.responses[1].choices = <<>>
    /\ last.res.outcome = "reply_raised"

\* ------------------------------------------------------------------ C16
\* C16: patch_openai changes the bound call-site and nothing of the TRICOT
\* logger (no handler attached, removed or opened, no level set, no line
\* written); new_log_file changes the logger's handlers and level and
\* leaves the call-site as it was.  So the call-site is the wrapper of the
\* latest install whatever new_log_file calls ran before or after it, and
\* the logger is untouched until the first new_log_file.
C16_Independent ==
    /\ [](/\ site = IF lastInstall = "never" THEN Unpatched
                     ELSE Wrapper(lastInstall)
          /\ nOpens = 0 => (level = NOTSET /\ handlerObjs = <<>>))
    /\ [][/\ (last'.op = "patch" /\ last' # last)
              => UNCHANGED <<level, handlers, handlerObjs, files,
                             rootHandlers>>
          /\ nOpens' # nOpens => site' = site]_vars

\* An install with a hook after a new_log_file that returned, and the
\* handler it attached is still the only one.
C16_Witness ==
    /\ last.op = "patch"
    /\ last.edit_call = "append_new"
    /\ opened.ok
    /\ Len(handlers) = 1
    /\ handlerObjs[handlers[1]].path = opened.path
    /\ level = INFO

\* ------------------------------------------------------------------ C17
\* C17: new_log_file with a writable path returns, whatever handlers the
\* TRICOT logger and the root logger have.
C17_CompletesWithWritablePath ==
    (last.op = "open" /\ ~Unwritable(last.path)) => last.outcome = "returned"

\* ------------------------------------------------------------------ C18
\* Every thread has called new_log_file and left it.
Finished(t) == threads[t].pc \in {"returned", "IndexError", "OSError"}

AllFinished == \A t \in Threads : Finished(t)

Returned == {t \in Threads : threads[t].pc = "returned"}

\* C18 as stated: when concurrent new_log_file calls (with writable paths,
\* and no handler on the root logger) have all ended, none has raised and
\* the TRICOT logger has exactly one handler.
C18_RaceFree ==
    (/\ AllFinished
     /\ ~rootHandlers
     /\ \A t \in Threads : ~Unwritable(threads[t].path))
    => /\ Returned = Threads
       /\ Len(handlers) = 1

\* C18, amended: when concurrent new_log_file calls with writable paths
\* have all ended, each has returned or raised IndexError out of its
\* removal loop; the TRICOT logger holds only handlers these calls
\* attached, each once, and no more than calls returned.  With no handler
\* on the root logger at least one call returned and at least one handler
\* is attached; with one, every call raised and none is attached.
C18_RaceOutcome ==
    (/\ AllFinished
     /\ \A t \in Threads : ~Unwritable(threads[t].path))
    => /\ \A t \in Threads : threads[t].pc \in {"returned", "IndexError"}
       /\ Len(handlers) <= Cardinality(Returned)
       /\ \A i \in 1..Len(handlers) :
             /\ handlers[i] > 0
             /\ handlerObjs[handlers[i]].stream = "open"
             /\ \A j \in 1..Len(handlers) : handlers[j] = handlers[i] => j = i
       /\ Len(handlerObjs) = Cardinality(Returned)
       /\ ~rootHandlers => (Returned # {} /\ Len(handlers) >= 1)
       /\ rootHandlers => (Returned = {} /\ handlers = <<>>)

\* Two calls returned and both their handlers are attached, where the
\* application's own two handlers were before.
C18_Witness ==
    /\ AllFinished
    /\ Cardinality(Returned) >= 2
    /\ Len(handlers) = 2
    /\ handlers[1] > 0 /\ handlers[2] > 0
    /\ ~rootHandlers

\* ------------------------------------------------------------------ C13
StepNames(steps) == [i \in 1..Len(steps) |-> steps[i].step]

\* The steps of a wrapped call that returns, in order.
StepsInOrder(hook) ==
    (IF hook = None THEN <<>> ELSE <<"hook">>)
    \o <<"time", "send", "receive", "log", "return">>

\* The clock at the (first) step `name` of the history.
RECURSIVE StepAt(_, _)
StepAt(steps, name) ==
    IF Head(steps).step = name THEN Head(steps).at
    ELSE StepAt(Tail(steps), name)

\* C13: the steps a wrapped call has taken are a beginning of: the hook (if
\* one is bound), the timestamp read, the request sent and answered, the
\* record handed to the channel, the return; each once at most.  When the
\* call has returned it took them all, and the timestamp of its one record
\* is the clock as read at the timestamp step, which is not later than the
\* sending of the request.
C13_StepOrder ==
    flight.pc # "idle" =>
        /\ IsPrefix(StepNames(flight.steps), StepsInOrder(flight.installed))
        /\ flight.pc = "returned" =>
              /\ StepNames(flight.steps) = StepsInOrder(flight.installed)
              /\ Len(flight.hookCalls)
                    = IF flight.installed = None THEN 0 ELSE 1
              /\ Len(flight.requests) = 1
              /\ Len(flight.records) = 1
              /\ Len(flight.logged) = 1
              /\ flight.returned = flight.responses
              /\ flight.records[1].timestamp = StepAt(flight.steps, "time")
              /\ StepAt(flight.steps, "time") <= StepAt(flight.steps, "send")
              /\ StepAt(flight.steps, "send")
                    <= StepAt(flight.steps, "receive")

\* A call with a hook returned; the clock moved while the request was out,
\* and the record carries the earlier reading.
C13_Witness ==
    /\ flight.pc = "returned"
    /\ flight.installed = "append_new"
    /\ StepAt(flight.steps, "send") < StepAt(flight.steps, "receive")
    /\ flight.records[1].timestamp = StepAt(flight.steps, "send")
    /\ flight.records[1].timestamp < clock

\* ------------------------------------------------------------------ C19
\* C19: the hook a wrapped call applies is the one of the latest install
\* before the call was entered, whatever is installed while the call runs:
\* the messages it forwards are that hook's result and its record is those
\* messages and the reply.
C19_HookBoundAtEntry ==
    flight.pc # "idle" =>
        /\ flight.edit_call = flight.installed
        /\ \A i \in 1..Len(flight.hookCalls) :
              flight.hookCalls[i].hook = flight.installed
        /\ \A i \in 1..Len(flight.requests) :
              flight.requests[i].messages
                  = HookResult(flight.installed, flight.input)
        /\ \A i \in 1..Len(flight.records) :
              flight.records[i].messages
                  = Append(HookResult(flight.installed, flight.input),
                           flight.responses[1].choices[1])

\* The second call of a run returned with the hook installed before it was
\* entered, a different hook having been installed while its request was
\* out.
C19_Witness ==
    /\ flight.pc = "returned"
    /\ nCalls = 2
    /\ flight.installed = "append_new"
    /\ flight.sentSite = Wrapper("append_new")
    /\ flight.recvSite = Wrapper("mutate_inplace")
    /\ flight.records[1].messages[2] = SysMsg
    /\ flight.input[1].content = "hi"
    /\ flight.records[1].messages[1].content = "hi"

====
